---------------------------- MODULE Spec2Model ----------------------------
(***************************************************************************)
(* A model of TwinCAT_To_PDF.py: the file collector, the segment extractor *)
(* and the report renderer (numbering and line highlighting).              *)
(*                                                                         *)
(* Strings are sequences of one-character strings.  The three colour       *)
(* markers the renderer inserts and the two halves of a CDATA envelope are *)
(* single elements of such a sequence: none of them contains an upper-case *)
(* letter sequence a keyword pattern could match, and each starts and ends *)
(* with a non-word character.                                              *)
(***************************************************************************)
EXTENDS Integers, Sequences, FiniteSets, TLC

VARIABLES pc,
          doc, result,
          walk, code_files_by_folder, cursor, toc_data, elements,
          line, safe_line, highlighted, element

vars == << pc, doc, result,
           walk, code_files_by_folder, cursor, toc_data, elements,
           line, safe_line, highlighted, element >>

extractVars == << doc, result >>
mainVars    == << walk, code_files_by_folder, cursor, toc_data, elements >>
lineVars    == << line, safe_line, highlighted, element >>

None == "None"

(***************************************************************************)
(* Bounds of the model.                                                    *)
(***************************************************************************)
MaxAtoms    == 3    \* lexical atoms in one physical line
MaxChildren == 2    \* child elements of the root of a document
MaxFiles    == 3    \* files met by the directory walk
MaxFolders  == 2    \* directories met by the directory walk

(***************************************************************************)
(* Generic string helpers (Python str semantics).                          *)
(***************************************************************************)
Whitespace == {" ", "\t", "\n", "\r"}

UpperCase == {"A","B","C","D","E","F","G","H","I","J","K","L","M",
              "N","O","P","Q","R","S","T","U","V","W","X","Y","Z"}
LowerCase == {"a","b","c","d","e","f","g","h","i","j","k","l","m",
              "n","o","p","q","r","s","t","u","v","w","x","y","z"}
Digit     == {"0","1","2","3","4","5","6","7","8","9"}

\* the class \w of the re module
WordChars == UpperCase \cup LowerCase \cup Digit \cup {"_"}

IsWord(c) == c \in WordChars

RECURSIVE LStrip(_)
LStrip(s) == IF s # << >> /\ Head(s) \in Whitespace THEN LStrip(Tail(s)) ELSE s

RECURSIVE RStrip(_)
RStrip(s) == IF s # << >> /\ s[Len(s)] \in Whitespace
             THEN RStrip(SubSeq(s, 1, Len(s) - 1)) ELSE s

\* str.strip()
Strip(s) == RStrip(LStrip(s))

\* the index of the first occurrence of the substring sub in s at or after i, 0 if none
RECURSIVE FindFrom(_, _, _)
FindFrom(s, sub, i) ==
    IF i + Len(sub) - 1 > Len(s) THEN 0
    ELSE IF SubSeq(s, i, i + Len(sub) - 1) = sub THEN i
    ELSE FindFrom(s, sub, i + 1)

\* str.find(sub) + 1
Find(s, sub) == FindFrom(s, sub, 1)

\* sub in s
Contains(s, sub) == Find(s, sub) # 0

\* str.split(sep): every piece between separators
RECURSIVE Split(_, _)
Split(s, sep) ==
    LET p == Find(s, sep)
    IN  IF p = 0 THEN << s >>
        ELSE << SubSeq(s, 1, p - 1) >> \o Split(SubSeq(s, p + Len(sep), Len(s)), sep)

\* (variant) a split at the last occurrence of sep instead of the first
RECURSIVE FindLastFrom(_, _, _)
FindLastFrom(s, sub, i) ==
    IF i < 1 THEN 0
    ELSE IF i + Len(sub) - 1 <= Len(s) /\ SubSeq(s, i, i + Len(sub) - 1) = sub THEN i
    ELSE FindLastFrom(s, sub, i - 1)

SplitAtLast(s, sep) ==
    LET p == FindLastFrom(s, sep, Len(s))
    IN  << SubSeq(s, 1, p - 1), SubSeq(s, p + Len(sep), Len(s)) >>

\* str.split(sep, 1) when sep occurs in s
SplitOnce(s, sep) ==
    LET p == Find(s, sep)
    IN  << SubSeq(s, 1, p - 1), SubSeq(s, p + Len(sep), Len(s)) >>

\* str(n) for a natural number
RECURSIVE Str(_)
Str(n) ==
    LET d == << "0","1","2","3","4","5","6","7","8","9" >>
    IN  IF n < 10 THEN << d[n + 1] >> ELSE Str(n \div 10) \o << d[(n % 10) + 1] >>

(***************************************************************************)
(* Line rendering: add_code_files, the body of "for line in code_lines".   *)
(***************************************************************************)
BlueOpen  == "<font color=\"blue\">"
GreenOpen == "<font color=\"green\">"
FontClose == "</font>"
Markers   == {BlueOpen, GreenOpen, FontClose}

CommentIntro == << "/", "/" >>

\* the list the loop body builds for every line
keywords ==
    << <<"_","_","U","X","I","N","T">>,
       <<"_","_","X","I","N","T">>,
       <<"_","_","X","W","O","R","D">>,
       <<"B","I","T">>,
       <<"B","O","O","L">>,
       <<"B","Y","T","E">>,
       <<"D","A","T","E">>,
       <<"D","A","T","E","_","A","N","D","_","T","I","M","E">>,
       <<"D","I","N","T">>,
       <<"D","T">>,
       <<"D","W","O","R","D">>,
       <<"I","N","T">>,
       <<"L","D","A","T","E">>,
       <<"L","D","A","T","E","_","A","N","D","_","T","I","M","E">>,
       <<"L","D","T">>,
       <<"L","I","N","T">>,
       <<"L","R","E","A","L">>,
       <<"L","T","I","M","E">>,
       <<"L","T","O","D">>,
       <<"L","W","O","R","D">>,
       <<"R","E","A","L">>,
       <<"S","I","N","T">>,
       <<"S","T","R","I","N","G">>,
       <<"T","I","M","E">>,
       <<"T","O","D">>,
       <<"T","I","M","E","_","O","F","_","D","A","Y">>,
       <<"U","D","I","N","T">>,
       <<"U","I","N","T">>,
       <<"U","L","I","N","T">>,
       <<"U","S","I","N","T">>,
       <<"W","O","R","D">>,
       <<"W","S","T","R","I","N","G">>,
       <<"F","U","N","C","T","I","O","N","_","B","L","O","C","K">>,
       <<"P","R","O","G","R","A","M">>,
       <<"I","M","P","L","E","M","E","N","T","S">>,
       <<"I","N","T","E","R","F","A","C","E">>,
       <<"V","A","R">>,
       <<"E","N","D","_","V","A","R">>,
       <<"E","X","T","E","N","D","S">>,
       <<"P","R","O","P","E","R","T","Y">>,
       <<"T","Y","P","E">>,
       <<"E","N","D","_","T","Y","P","E">>,
       <<"S","T","R","U","C","T">>,
       <<"E","N","D","_","S","T","R","U","C","T">>,
       <<"P","O","I","N","T","E","R">>,
       <<"T","O">>,
       <<"D","O">>,
       <<"F","O","R">>,
       <<"E","N","D","_","F","O","R">>,
       <<"E","N","D","_","I","F">>,
       <<"I","F">>,
       <<"A","N","D">>,
       <<"A","N","D","_","T","H","E","N">>,
       <<"O","R","_","E","L","S","E">>,
       <<"E","L","S","E">>,
       <<"W","H","I","L","E">>,
       <<"R","E","P","E","A","T">>,
       <<"U","N","T","I","L">>,
       <<"C","A","S","E">>,
       <<"O","F">>,
       <<"A","D","R">>,
       <<"X","O","R">>,
       <<"V","A","R","_","I","N","P","U","T">>,
       <<"V","A","R","_","O","U","T","P","U","T">>,
       <<"P","E","R","S","I","S","T","E","N","T">>,
       <<"R","E","T","A","I","N">>,
       <<"A","T">>,
       <<"A","R","R","A","Y">>,
       <<"O","F">>,
       <<"M","E","T","H","O","D">>,
       <<"T","H","I","S","^">>,
       <<"N","O","T">>,
       <<"T","H","E","N">>,
       <<"E","L","S","I","F">>,
       <<"R","E","F","E","R","E","N","C","E">>,
       <<"R","E","F","=">>,
       <<"P","U","B","L","I","C">>,
       <<"P","R","I","V","A","T","E">>,
       <<"C","O","N","S","T","A","N","T">>,
       <<"V","A","R","_","G","L","O","B","A","L">> >>


\* str.replace of one character by a string
RECURSIVE Replace(_, _, _)
Replace(s, c, by) ==
    IF s = << >> THEN << >>
    ELSE (IF Head(s) = c THEN by ELSE << Head(s) >>) \o Replace(Tail(s), c, by)

\* line.replace('&', '&amp;').replace('<', '&lt;').replace('>', '&gt;')
Escape(s) ==
    Replace(Replace(Replace(s, "&", << "&","a","m","p",";" >>),
                    "<", << "&","l","t",";" >>),
            ">", << "&","g","t",";" >>)

\* \b at position p of s (between s[p-1] and s[p])
WordBoundary(s, p) ==
    (p > 1 /\ IsWord(s[p - 1])) # (p <= Len(s) /\ IsWord(s[p]))

\* the body of the pattern rf'\b{keyword}\b': the keyword is pasted into the
\* pattern unescaped, so its character ^ is the start-of-string anchor and
\* every other character of the list is a literal.  The position after the
\* body matched from position p, 0 when it does not match.
RECURSIVE MatchBody(_, _, _, _)
MatchBody(s, p, kw, k) ==
    IF k > Len(kw) THEN p
    ELSE IF kw[k] = "^"
         THEN IF p = 1 THEN MatchBody(s, p, kw, k + 1) ELSE 0
         ELSE IF p <= Len(s) /\ s[p] = kw[k]
              THEN MatchBody(s, p + 1, kw, k + 1) ELSE 0

\* (variant) the pattern rf'\b{keyword}' without the closing \b
MatchEndNoClosingBoundary(s, i, kw) ==
    LET e == MatchBody(s, i, kw, 1)
    IN  IF e # 0 /\ WordBoundary(s, i) THEN e ELSE 0

\* the position after a match of rf'\b{keyword}\b' starting at i, 0 if none
MatchEnd(s, i, kw) ==
    LET e == MatchBody(s, i, kw, 1)
    IN  IF e # 0 /\ WordBoundary(s, i) /\ WordBoundary(s, e) THEN e ELSE 0

\* re.sub(rf'\b{keyword}\b', lambda m: f'<font color="blue">{m.group(0)}</font>', s)
\* the start of the leftmost match at or after i, 0 if there is none
RECURSIVE NextMatch(_, _, _)
NextMatch(s, i, kw) ==
    IF i > Len(s) THEN 0
    ELSE IF MatchEnd(s, i, kw) > i THEN i
    ELSE NextMatch(s, i + 1, kw)

RECURSIVE SubFrom(_, _, _)
SubFrom(s, i, kw) ==
    LET j == NextMatch(s, i, kw)
    IN  IF j = 0 THEN SubSeq(s, i, Len(s))
        ELSE SubSeq(s, i, j - 1)
             \o << BlueOpen >> \o SubSeq(s, j, MatchEnd(s, j, kw) - 1) \o << FontClose >>
             \o SubFrom(s, MatchEnd(s, j, kw), kw)

Sub(s, kw) == SubFrom(s, 1, kw)

\* for keyword in keywords[lo..hi]: s = re.sub(...), in list order (the
\* range is halved only to keep the evaluation shallow)
RECURSIVE HighlightRange(_, _, _)
HighlightRange(s, lo, hi) ==
    IF lo = hi THEN Sub(s, keywords[lo])
    ELSE LET mid  == (lo + hi) \div 2
             left == HighlightRange(s, lo, mid)
         IN  IF Len(left) >= Len(s) THEN HighlightRange(left, mid + 1, hi) ELSE s

\* for keyword in keywords: s = re.sub(...)
Highlight(s) == HighlightRange(s, 1, Len(keywords))

IsBlank(s) == Strip(s) = << >>

\* the part of the line handed to the keyword loop
CommentCodePart(l) == SplitOnce(l, CommentIntro)[1]
CommentPart(l)     == SplitOnce(l, CommentIntro)[2]

\* full_line = code_part + f'<font color="green">//{comment_part}</font>'
FullLine(code_part, comment_part) ==
    code_part \o << GreenOpen >> \o CommentIntro \o comment_part \o << FontClose >>

Spacer(h)      == [type |-> "Spacer", height |-> h]
\* role names the statement that appended the paragraph
Paragraph(t, s, r) == [type |-> "Paragraph", text |-> t, style |-> s, role |-> r]
Table(rows)    == [type |-> "Table", rows |-> rows]
PageBreak      == [type |-> "PageBreak"]
NoElement      == [type |-> "None"]

\* what the loop body does with one line: the value the keyword loop ends
\* with and the flowable appended to elements
render_line(l) ==
    LET safe == Escape(l)
    IN  IF IsBlank(safe)
        THEN [safe_line |-> safe, highlighted |-> << >>, element |-> Spacer("10")]
        ELSE IF Contains(l, CommentIntro)
        THEN LET code_part == Highlight(CommentCodePart(l))
             IN  [safe_line |-> safe, highlighted |-> code_part,
                  element |-> Paragraph(Strip(FullLine(code_part, CommentPart(l))),
                                        "CodeStyle", "code")]
        ELSE LET hl == Highlight(safe)
             IN  [safe_line |-> safe, highlighted |-> hl,
                  element |-> Paragraph(Strip(hl), "CodeStyle", "code")]

\* the lexical atoms the lines of the model are made of
LineAtoms ==
    { << " " >>, << "x" >>, << "<" >>, << "&" >>, CommentIntro,
      << "O","F" >>, << "I","N","T" >>, << "E","N","D","_","V","A","R" >>,
      << "R","E","F","=" >>, << "T","H","I","S","^" >> }

RECURSIVE AtomSeqs(_)
AtomSeqs(n) ==
    IF n = 0 THEN { << >> }
    ELSE LET shorter == AtomSeqs(n - 1)
         IN  shorter \cup { a \o t : a \in LineAtoms, t \in shorter }

Lines == AtomSeqs(MaxAtoms)



NoLine == << "-" >>

(***************************************************************************)
(* The segment extractor.  An element is a record [tag, attrib, text,      *)
(* children]; attrib is a set of <<key, value>> pairs; text is NoText when *)
(* the parser gives None.  Elements are addressed by their path, the       *)
(* sequence of child positions leading to them from the root.              *)
(***************************************************************************)
NoText == << None >>

CdataOpen  == "<![CDATA["
CdataClose == "]]>"

\* the truth value Python gives a str-or-None
Truthy(t) == t # NoText /\ t # << >>

\* extract_cdata: the content of the first envelope, else the text, trimmed
extract_cdata(text) ==
    IF ~Truthy(text) THEN NoText
    ELSE LET p == Find(text, << CdataOpen >>)
             q == IF p = 0 THEN 0 ELSE FindFrom(text, << CdataClose >>, p + 1)
         IN  IF q # 0 THEN Strip(SubSeq(text, p + 1, q - 1)) ELSE Strip(text)

El(tag, attrib, text, children) ==
    [tag |-> << tag >>, attrib |-> attrib, text |-> text, children |-> children]

\* attrib.get(key, default)
AttribGet(attrib, key, default) ==
    IF \E a \in attrib : a[1] = key
    THEN (CHOOSE a \in attrib : a[1] = key)[2] ELSE default

RECURSIVE At(_, _)
At(e, path) == IF path = << >> THEN e ELSE At(e.children[Head(path)], Tail(path))

\* Element.iter() below e, in document order, e itself left out
RECURSIVE IterFrom(_, _, _)
IterFrom(e, prefix, i) ==
    IF i > Len(e.children) THEN << >>
    ELSE << prefix \o << i >> >>
         \o IterFrom(e.children[i], prefix \o << i >>, 1)
         \o IterFrom(e, prefix, i + 1)

\* the step ".//tag" from the element at path base
Descendants(root, base, tag) ==
    SelectSeq(IterFrom(At(root, base), base, 1), LAMBDA q : At(root, q).tag = << tag >>)

\* the step "tag" from the element at path base
Children(root, base, tag) ==
    LET e == At(root, base)
    IN  SelectSeq([i \in 1..Len(e.children) |-> base \o << i >>],
                  LAMBDA q : At(root, q).tag = << tag >>)

\* the step "/tag" applied to every element of a result list
RECURSIVE ChildrenOfAll(_, _, _)
ChildrenOfAll(root, bases, tag) ==
    IF bases = << >> THEN << >>
    ELSE Children(root, Head(bases), tag) \o ChildrenOfAll(root, Tail(bases), tag)

\* find(): the first match or nothing, as a list of at most one path
First(paths) == IF paths = << >> THEN << >> ELSE << Head(paths) >>

\* one candidate sub-block: "if x is not None and x.text:" ... "if content:"
\* src is the path of the element the payload was read from
Segment(root, found, label) ==
    IF found = << >> THEN << >>
    ELSE LET text == At(root, found[1]).text
         IN  IF Truthy(text) /\ Truthy(extract_cdata(text))
             THEN << [label |-> label, code |-> extract_cdata(text), src |-> found[1]] >>
             ELSE << >>

\* root.find(".//Declaration")
MainDeclaration(root) == First(Descendants(root, << >>, "Declaration"))

\* root.find(".//Implementation/ST")
MainImplementation(root) ==
    First(ChildrenOfAll(root, Descendants(root, << >>, "Implementation"), "ST"))

\* x.find("Declaration"), x.find("Implementation/ST")
DeclarationOf(root, q)    == First(Children(root, q, "Declaration"))
ImplementationOf(root, q) == First(ChildrenOfAll(root, Children(root, q, "Implementation"), "ST"))

NameOf(root, q) == AttribGet(At(root, q).attrib, "Name", << "Unknown" >>)

MethodSegments(root, q) ==
    Segment(root, DeclarationOf(root, q),
            << "Method " >> \o NameOf(root, q) \o << " Declaration" >>)
    \o Segment(root, ImplementationOf(root, q),
               << "Method " >> \o NameOf(root, q) \o << " Implementation" >>)

\* "if get_method is not None:" and the same for set_method
AccessorSegments(root, q, found, which) ==
    IF found = << >> THEN << >>
    ELSE Segment(root, DeclarationOf(root, found[1]),
                 << "Property " >> \o NameOf(root, q) \o << which, " Declaration" >>)
         \o Segment(root, ImplementationOf(root, found[1]),
                    << "Property " >> \o NameOf(root, q) \o << which, " Implementation" >>)

PropertySegments(root, q) ==
    Segment(root, DeclarationOf(root, q),
            << "Property " >> \o NameOf(root, q) \o << " Declaration" >>)
    \o AccessorSegments(root, q, First(Children(root, q, "Get")), " Get")
    \o AccessorSegments(root, q, First(Children(root, q, "Set")), " Set")

\* for method in methods:
RECURSIVE AllMethodSegments(_, _)
AllMethodSegments(root, methods) ==
    IF methods = << >> THEN << >>
    ELSE MethodSegments(root, Head(methods)) \o AllMethodSegments(root, Tail(methods))

\* for prop in properties:
RECURSIVE AllPropertySegments(_, _)
AllPropertySegments(root, properties) ==
    IF properties = << >> THEN << >>
    ELSE PropertySegments(root, Head(properties))
         \o AllPropertySegments(root, Tail(properties))

\* root.tag.split('}')[-1]
ObjType(root) == LET parts == Split(root.tag, << "}" >>) IN parts[Len(parts)]

\* Path(file_path).name
BaseName(file_path) == LET parts == Split(file_path, << "/" >>) IN parts[Len(parts)]

Title(file_path, root) ==
    LET obj_type == ObjType(root)
        obj_name == AttribGet(root.attrib, "Name", << "Unknown" >>)
    IN  IF obj_type = << "POU" >>
        THEN obj_type \o << ": " >> \o obj_name \o << " " >>
             \o AttribGet(root.attrib, "SpecialFunc", << >>)
        ELSE IF obj_type = << "Itf" >> THEN << "Interface: " >> \o obj_name
        ELSE IF obj_type = << "DUT" >> THEN << "DUT: " >> \o obj_name
        ELSE IF obj_type = << "GVL" >> THEN << "GVL: " >> \o obj_name
        ELSE BaseName(file_path)

\* a file whose content ET.parse rejects
Malformed == [tag |-> << "#malformed" >>, attrib |-> {}, text |-> NoText, children |-> << >>]

\* the pair (None, None) is the record with ok = FALSE
NoResult == [ok |-> FALSE, title |-> NoText, code_segments |-> << >>]

extract_twincat_code(file_path, root) ==
    IF root = Malformed THEN NoResult
    ELSE [ok |-> TRUE,
          title |-> Title(file_path, root),
          code_segments |->
              Segment(root, MainDeclaration(root), << "Declaration" >>)
              \o Segment(root, MainImplementation(root), << "Implementation" >>)
              \o AllMethodSegments(root, Descendants(root, << >>, "Method"))
              \o AllPropertySegments(root, Descendants(root, << >>, "Property"))]

\* the (label, text) pairs the function returns
Pairs(segs) == [i \in 1..Len(segs) |-> << segs[i].label, segs[i].code >>]

(***************************************************************************)
(* The documents of the model.                                             *)
(***************************************************************************)
Texts ==
    { NoText, << " " >>, << " ", "a", " " >>,
      << CdataOpen, " ", "b", " ", CdataClose >>,
      << "c", CdataOpen, " ", CdataClose >> }

Opt(S) == { << >> } \cup { << e >> : e \in S }

DeclarationEls(T) == { El("Declaration", {}, t, << >>) : t \in T }
ImplementationEls(T) ==
    { El("Implementation", {}, NoText, st) : st \in Opt({ El("ST", {}, t, << >>) : t \in T }) }

MethodEls ==
    { El("Method", {<< "Name", << "M" >> >>}, NoText, d \o i) :
        d \in Opt(DeclarationEls({ << " " >>, << "m" >> })),
        i \in { << >> } \cup { << e >> : e \in ImplementationEls({ << "n" >> }) \ {El("Implementation", {}, NoText, << >>)} } }

AccessorEls(tag) ==
    { El(tag, {}, NoText, d \o i) :
        d \in Opt(DeclarationEls({ << "g" >> })),
        i \in { << e >> : e \in ImplementationEls({ << "h" >> }) \ {El("Implementation", {}, NoText, << >>)} } }

PropertyEls ==
    { El("Property", {<< "Name", << "P" >> >>}, NoText, d \o g \o s) :
        d \in Opt(DeclarationEls({ << "p" >> })),
        g \in Opt(AccessorEls("Get")),
        s \in Opt({ El("Set", {}, NoText, << El("Declaration", {}, << "s" >>, << >>) >>) }) }

TopEls ==
    DeclarationEls(Texts) \cup ImplementationEls({ NoText, << "i" >> })
    \cup MethodEls \cup PropertyEls

RECURSIVE ChildSeqs(_)
ChildSeqs(n) ==
    IF n = 0 THEN { << >> }
    ELSE LET shorter == ChildSeqs(n - 1)
         IN  shorter \cup { << e >> \o cs : e \in TopEls, cs \in shorter }

RootTags ==
    { << "POU" >>, << "Itf" >>, << "DUT" >>, << "GVL" >>, << "TcPlcObject" >>,
      << "{", "ns", "}", "POU" >> }

RootAttribs ==
    { {}, {<< "Name", << "MAIN" >> >>},
      {<< "Name", << "MAIN" >> >>, << "SpecialFunc", << "None" >> >>} }

Roots ==
    { [tag |-> t, attrib |-> a, text |-> NoText, children |-> cs] :
        t \in RootTags, a \in RootAttribs, cs \in ChildSeqs(MaxChildren) }

ExtractPath == << "POUs", "/", "Main.TcPOU" >>

NoDoc == [file_path |-> << >>, root |-> Malformed]

InitExtract ==
    /\ pc = "extract"
    /\ doc \in { [file_path |-> ExtractPath, root |-> r] : r \in Roots \cup {Malformed} }
    /\ result = NoResult
    /\ walk = << >> /\ code_files_by_folder = << >> /\ cursor = << 0, 0 >>
    /\ toc_data = << >> /\ elements = << >>
    /\ line = NoLine /\ safe_line = << >> /\ highlighted = << >> /\ element = NoElement

\* return title, code_segments
ExtractReturns ==
    /\ pc = "extract"
    /\ doc.root # Malformed
    /\ result' = extract_twincat_code(doc.file_path, doc.root)
    /\ pc' = "returned"
    /\ UNCHANGED << doc, mainVars, lineVars >>

\* except Exception as e: ... return None, None
ExtractFails ==
    /\ pc = "extract"
    /\ doc.root = Malformed
    /\ result' = extract_twincat_code(doc.file_path, doc.root)
    /\ pc' = "failed"
    /\ UNCHANGED << doc, mainVars, lineVars >>

NextExtract == ExtractReturns \/ ExtractFails

SpecExtract == InitExtract /\ [][NextExtract]_vars

(***************************************************************************)
(* Rendering one line of a segment.                                        *)
(***************************************************************************)
InitRender ==
    /\ pc = "line"
    /\ line \in Lines
    /\ safe_line = << >>
    /\ highlighted = << >>
    /\ element = NoElement
    /\ doc = NoDoc /\ result = NoResult
    /\ walk = << >> /\ code_files_by_folder = << >> /\ cursor = << 0, 0 >>
    /\ toc_data = << >> /\ elements = << >>

LineDone(r) ==
    /\ safe_line' = r.safe_line
    /\ highlighted' = r.highlighted
    /\ element' = r.element
    /\ pc' = "rendered"
    /\ UNCHANGED << line, extractVars, mainVars >>

\* else: elements.append(Spacer(1, 10))
RenderBlankLine ==
    /\ pc = "line"
    /\ IsBlank(Escape(line))
    /\ \E r \in { render_line(line) } : LineDone(r)

\* if "//" in line:
RenderCommentLine ==
    /\ pc = "line"
    /\ ~IsBlank(Escape(line))
    /\ Contains(line, CommentIntro)
    /\ \E r \in { render_line(line) } : LineDone(r)

\* else:
RenderPlainLine ==
    /\ pc = "line"
    /\ ~IsBlank(Escape(line))
    /\ ~Contains(line, CommentIntro)
    /\ \E r \in { render_line(line) } : LineDone(r)

NextRender == RenderBlankLine \/ RenderCommentLine \/ RenderPlainLine

SpecRender == InitRender /\ [][NextRender]_vars

(***************************************************************************)
(* The run: main, collect_files and generate_pdf.  A dictionary is the     *)
(* sequence of its items in insertion order.  An entry of a folder's list  *)
(* is a file path (with the content of the file at that path) until main   *)
(* replaces it by the tuple (title, code_segments).                        *)
(***************************************************************************)
extensions == { ".TcPOU", ".TcDUT", ".TcGVL", ".TcIO" }

\* file_path.suffix in extensions; a file name is << stem, suffix >>
is_twincat_file(name) == name[Len(name)] \in extensions

PathEntry(file_path, root) == [kind |-> "path", file_path |-> file_path, root |-> root]
TupleEntry(r) ==
    [kind |-> "tuple", title |-> r.title, code_segments |-> Pairs(r.code_segments)]

\* files_by_folder[folder_path].append(file_path), creating the list first
Append1(dict, folder, entry) ==
    IF \E k \in 1..Len(dict) : dict[k].folder = folder
    THEN [k \in 1..Len(dict) |->
            IF dict[k].folder = folder
            THEN [dict[k] EXCEPT !.files = Append(@, entry)] ELSE dict[k]]
    ELSE Append(dict, [folder |-> folder, files |-> << entry >>])

\* for file in files: of one directory of the walk
RECURSIVE CollectDir(_, _, _)
CollectDir(dict, dir, files) ==
    IF files = << >> THEN dict
    ELSE LET f == Head(files)
         IN  CollectDir(IF is_twincat_file(f.name)
                        THEN Append1(dict, dir,
                                     PathEntry(dir \o << "/" >> \o f.name, f.root))
                        ELSE dict,
                        dir, Tail(files))

\* for root, _, files in os.walk(input_folder):
RECURSIVE CollectFrom(_, _)
CollectFrom(dict, w) ==
    IF w = << >> THEN dict
    ELSE CollectFrom(CollectDir(dict, Head(w).root, Head(w).files), Tail(w))

collect_files(w) == CollectFrom(<< >>, w)

\* f"{prefix}{idx + 1}" and f"{folder_label}.{file_index}" in add_to_toc
TocFolderLabel(prefix, idx)           == prefix \o Str(idx + 1)
TocFileLabel(folder_label, file_index) == folder_label \o << "." >> \o Str(file_index)

\* f"{prefix}{idx + 1}" in add_code_files
BodyFolderLabel(prefix, idx) == prefix \o Str(idx + 1)

\* (variant) a body numbering that counts the files of a folder from 0
BodyFileLabelFromZero(folder_label, file_index) ==
    folder_label \o << "." >> \o Str(file_index - 1)

\* f"{folder_label}.{file_index}" in add_code_files
BodyFileLabel(folder_label, file_index) == folder_label \o << "." >> \o Str(file_index)

\* isinstance(subfiles, dict): the values of the dictionary are lists
IsDict(files) == FALSE

Indent == << " ", " ", " ", " " >>

\* for title, _ in files: the rows of one folder; the unpacking of an entry
\* that still is a path raises TypeError
RECURSIVE TocFiles(_, _, _)
TocFiles(files, folder_label, file_index) ==
    IF files = << >> THEN [rows |-> << >>, raised |-> FALSE]
    ELSE IF Head(files).kind # "tuple" THEN [rows |-> << >>, raised |-> TRUE]
    ELSE LET rest == TocFiles(Tail(files), folder_label, file_index + 1)
         IN  [rows |-> << Indent \o TocFileLabel(folder_label, file_index)
                          \o << " " >> \o Head(files).title >> \o rest.rows,
              raised |-> rest.raised]

\* add_to_toc(data, prefix) from folder idx on; the loop over the
\* sub-folders calls add_to_toc again for every value that is a dictionary
RECURSIVE TocFrom(_, _, _)
TocFrom(data, prefix, idx) ==
    IF idx >= Len(data) THEN [rows |-> << >>, raised |-> FALSE]
    ELSE LET folder_label == TocFolderLabel(prefix, idx)
             own  == TocFiles(data[idx + 1].files, folder_label, 1)
             subs == SelectSeq(data, LAMBDA item : IsDict(item.files))
             sub  == IF own.raised \/ subs = << >>
                     THEN [rows |-> << >>, raised |-> FALSE]
                     ELSE TocFrom(subs, folder_label \o << "." >>, 0)
             rest == IF own.raised \/ sub.raised
                     THEN [rows |-> << >>, raised |-> FALSE]
                     ELSE TocFrom(data, prefix, idx + 1)
         IN  [rows |-> << folder_label \o << " " >> \o data[idx + 1].folder >>
                       \o own.rows \o sub.rows \o rest.rows,
              raised |-> own.raised \/ sub.raised \/ rest.raised]

add_to_toc(data) == TocFrom(data, << >>, 0)

\* for line in code_lines:
RECURSIVE CodeLines(_)
CodeLines(code_lines) ==
    IF code_lines = << >> THEN << >>
    ELSE << render_line(Head(code_lines)).element >> \o CodeLines(Tail(code_lines))

\* for segment_title, code in code_segments:
RECURSIVE SegmentElements(_)
SegmentElements(code_segments) ==
    IF code_segments = << >> THEN << >>
    ELSE << Paragraph(Head(code_segments)[1], "Subheading", "segment") >>
         \o CodeLines(Split(Head(code_segments)[2], << "\n" >>))
         \o << Spacer("0.5cm") >>
         \o SegmentElements(Tail(code_segments))

\* for title, code_segments in files:
RECURSIVE BodyFiles(_, _, _)
BodyFiles(files, folder_label, file_index) ==
    IF files = << >> THEN [els |-> << >>, raised |-> FALSE]
    ELSE IF Head(files).kind # "tuple" THEN [els |-> << >>, raised |-> TRUE]
    ELSE LET rest == BodyFiles(Tail(files), folder_label, file_index + 1)
         IN  [els |-> << Paragraph(BodyFileLabel(folder_label, file_index)
                                   \o << " " >> \o Head(files).title,
                                   "Subheading", "file") >>
                      \o SegmentElements(Head(files).code_segments) \o rest.els,
              raised |-> rest.raised]

\* add_code_files(data, prefix) from folder idx on
RECURSIVE BodyFrom(_, _, _)
BodyFrom(data, prefix, idx) ==
    IF idx >= Len(data) THEN [els |-> << >>, raised |-> FALSE]
    ELSE LET folder_label == BodyFolderLabel(prefix, idx)
             own  == BodyFiles(data[idx + 1].files, folder_label, 1)
             subs == SelectSeq(data, LAMBDA item : IsDict(item.files))
             sub  == IF own.raised \/ subs = << >>
                     THEN [els |-> << >>, raised |-> FALSE]
                     ELSE BodyFrom(subs, folder_label \o << "." >>, 0)
             rest == IF own.raised \/ sub.raised
                     THEN [els |-> << >>, raised |-> FALSE]
                     ELSE BodyFrom(data, prefix, idx + 1)
         IN  [els |-> (IF idx > 0 THEN << PageBreak >> ELSE << >>)
                      \o << Paragraph(folder_label \o << " " >> \o data[idx + 1].folder,
                                      "Heading", "folder") >>
                      \o own.els \o sub.els \o rest.els,
              raised |-> own.raised \/ sub.raised \/ rest.raised]

add_code_files(data) == BodyFrom(data, << >>, 0)

output_pdf == << "out", "/", "report.pdf" >>

\* os.path.basename(os.path.dirname(path))
DirBaseName(path) ==
    LET parts == Split(path, << "/" >>)
    IN  IF Len(parts) < 2 THEN << >> ELSE parts[Len(parts) - 1]

\* the flowables up to the table of contents
TitlePage(data) ==
    << Spacer("5cm"),
       Paragraph(<< "TwinCAT PLC PDF Auto-Gen" >>, "Title", "title"),
       Spacer("1cm"),
       Paragraph(<< "Generated on: " >> \o DirBaseName(output_pdf), "Normal", "generated"),
       Paragraph(<< "Total files: " >> \o Str(Len(data)), "Normal", "total"),
       PageBreak,
       Paragraph(<< "Table of Contents" >>, "Heading", "toc"),
       Spacer("0.5cm") >>

(***************************************************************************)
(* The directory trees of the model.                                       *)
(***************************************************************************)
GoodRoot ==
    [tag |-> << "POU" >>, attrib |-> {<< "Name", << "MAIN" >> >>}, text |-> NoText,
     children |->
        << El("Declaration", {}, << "I","N","T","\n"," ","\n","/","/","x" >>, << >>),
           El("Method", {<< "Name", << "M" >> >>}, NoText,
              << El("Declaration", {}, << "m" >>, << >>) >>) >>]

\* a unit that parses and has no payload
EmptyRoot ==
    [tag |-> << "DUT" >>, attrib |-> {<< "Name", << "E" >> >>}, text |-> NoText,
     children |-> << El("Declaration", {}, << " " >>, << >>) >>]

FileKinds ==
    { [name |-> << "Main", ".TcPOU" >>,  root |-> GoodRoot],
      [name |-> << "Empty", ".TcDUT" >>, root |-> EmptyRoot],
      [name |-> << "Bad", ".TcGVL" >>,   root |-> Malformed],
      [name |-> << "notes", ".txt" >>,   root |-> Malformed] }

RECURSIVE FileSeqs(_)
FileSeqs(n) ==
    IF n = 0 THEN { << >> }
    ELSE { << f >> \o fs : f \in FileKinds, fs \in FileSeqs(n - 1) }

\* the input folder itself, then its sub-directories
DirName(i) == IF i = 1 THEN << "." >> ELSE << "D" >> \o Str(i)

\* the walks that start at directory i, visit at most nd more directories
\* and meet at most nf files
RECURSIVE WalksFrom(_, _, _)
WalksFrom(i, nd, nf) ==
    IF nd = 0 THEN { << >> }
    ELSE { << >> } \cup
         UNION { { << [root |-> DirName(i), files |-> fs] >> \o w :
                      fs \in FileSeqs(k), w \in WalksFrom(i + 1, nd - 1, nf - k) } :
                 k \in 0..nf }

Walks == WalksFrom(1, MaxFolders, MaxFiles)

InitMain ==
    /\ pc = "collect"
    /\ walk \in Walks
    /\ code_files_by_folder = << >>
    /\ cursor = << 1, 1 >>
    /\ toc_data = << >>
    /\ elements = << >>
    /\ doc = NoDoc /\ result = NoResult
    /\ line = NoLine /\ safe_line = << >> /\ highlighted = << >> /\ element = NoElement

\* code_files_by_folder = collect_files(input_folder)
CollectFiles ==
    /\ pc = "collect"
    /\ code_files_by_folder' = collect_files(walk)
    /\ cursor' = << 1, 1 >>
    /\ pc' = "extract"
    /\ UNCHANGED << walk, toc_data, elements, extractVars, lineVars >>

CursorInRange == cursor[1] <= Len(code_files_by_folder)

CurrentEntry == code_files_by_folder[cursor[1]].files[cursor[2]]

NextCursor ==
    IF cursor[2] < Len(code_files_by_folder[cursor[1]].files)
    THEN << cursor[1], cursor[2] + 1 >> ELSE << cursor[1] + 1, 1 >>

\* one turn of the extraction loop: "if title and code_segments:" holds
ExtractFileStored ==
    /\ pc = "extract" /\ CursorInRange
    /\ LET r == extract_twincat_code(CurrentEntry.file_path, CurrentEntry.root)
       IN  /\ r.ok /\ Truthy(r.title) /\ r.code_segments # << >>
           /\ code_files_by_folder' =
                 [code_files_by_folder EXCEPT ![cursor[1]].files[cursor[2]] = TupleEntry(r)]
    /\ cursor' = NextCursor
    /\ UNCHANGED << pc, walk, toc_data, elements, extractVars, lineVars >>

\* one turn of the extraction loop: the condition fails, files[i] stays
ExtractFileSkipped ==
    /\ pc = "extract" /\ CursorInRange
    /\ LET r == extract_twincat_code(CurrentEntry.file_path, CurrentEntry.root)
       IN  ~(r.ok /\ Truthy(r.title) /\ r.code_segments # << >>)
    /\ cursor' = NextCursor
    /\ UNCHANGED << pc, walk, code_files_by_folder, toc_data, elements,
                    extractVars, lineVars >>

\* generate_pdf up to the call of add_to_toc
StartPdf ==
    /\ pc = "extract" /\ ~CursorInRange
    /\ elements' = TitlePage(code_files_by_folder)
    /\ pc' = "toc"
    /\ UNCHANGED << walk, code_files_by_folder, cursor, toc_data, extractVars, lineVars >>

\* add_to_toc(code_files_by_folder) returns; the table is appended
TocBuilt ==
    /\ pc = "toc"
    /\ ~add_to_toc(code_files_by_folder).raised
    /\ toc_data' = add_to_toc(code_files_by_folder).rows
    /\ elements' = elements \o << Table(toc_data'), PageBreak >>
    /\ pc' = "body"
    /\ UNCHANGED << walk, code_files_by_folder, cursor, extractVars, lineVars >>

\* add_to_toc raises TypeError: nothing catches it, the run ends
TocRaises ==
    /\ pc = "toc"
    /\ add_to_toc(code_files_by_folder).raised
    /\ toc_data' = add_to_toc(code_files_by_folder).rows
    /\ pc' = "aborted"
    /\ UNCHANGED << walk, code_files_by_folder, cursor, elements, extractVars, lineVars >>

\* add_code_files(code_files_by_folder)
BodyBuilt ==
    /\ pc = "body"
    /\ LET b == add_code_files(code_files_by_folder)
       IN  /\ elements' = elements \o b.els
           /\ pc' = IF b.raised THEN "aborted" ELSE "build"
    /\ UNCHANGED << walk, code_files_by_folder, cursor, toc_data, extractVars, lineVars >>

\* doc.build(elements)
Build ==
    /\ pc = "build"
    /\ pc' = "done"
    /\ UNCHANGED << mainVars, extractVars, lineVars >>

NextMain ==
    \/ CollectFiles \/ ExtractFileStored \/ ExtractFileSkipped
    \/ StartPdf \/ TocBuilt \/ TocRaises \/ BodyBuilt \/ Build

SpecMain == InitMain /\ [][NextMain]_vars

(***************************************************************************)
(* Properties of the run.                                                  *)
(***************************************************************************)
\* the files of the walk main hands to extract_twincat_code
RECURSIVE Flatten(_)
Flatten(w) == IF w = << >> THEN << >> ELSE Head(w).files \o Flatten(Tail(w))

AllowListed == SelectSeq(Flatten(walk), LAMBDA f : is_twincat_file(f.name))

Fails(f) == ~extract_twincat_code(f.name, f.root).ok

\* an entry main left as a path although its file parses (to no segment)
ParsedButPath(e) ==
    /\ e.kind = "path"
    /\ extract_twincat_code(e.file_path, e.root).ok
    /\ extract_twincat_code(e.file_path, e.root).code_segments = << >>

RECURSIVE Entries(_)
Entries(data) == IF data = << >> THEN << >> ELSE Head(data).files \o Entries(Tail(data))

\* the numbering label of a row or heading: its first word
NumberingLabel(text) == Split(LStrip(text), << " " >>)[1]

TocNumbering ==
    [i \in 1..Len(toc_data) |->
        << IF Head(toc_data[i]) = " " THEN "file" ELSE "folder",
           NumberingLabel(toc_data[i]) >>]

Headings ==
    SelectSeq(elements, LAMBDA e : e.type = "Paragraph" /\ e.role \in {"folder", "file"})

BodyNumbering ==
    [i \in 1..Len(Headings) |-> << Headings[i].role, NumberingLabel(Headings[i].text) >>]

\* k for the k-th folder, k.j for its j-th file
RECURSIVE ExpectedNumbering(_, _)
ExpectedNumbering(data, k) ==
    IF k > Len(data) THEN << >>
    ELSE << << "folder", Str(k) >> >>
         \o [j \in 1..Len(data[k].files) |-> << "file", Str(k) \o << "." >> \o Str(j) >>]
         \o ExpectedNumbering(data, k + 1)

Rendered == pc \in {"build", "done"}

\* C1: when an allow-listed file fails extraction the run is not aborted,
\* the document is written without that file and with every other file.
C1_FailedFileSkipped ==
    (\E i \in 1..Len(AllowListed) : Fails(AllowListed[i])) =>
        /\ pc # "aborted"
        /\ pc = "done" =>
              Len(SelectSeq(Headings, LAMBDA e : e.role = "file"))
                = Len(SelectSeq(AllowListed, LAMBDA f : ~Fails(f)))

\* C3: the numbering labels of the table of contents are, string for string
\* and in the same order, those of the folder headings and file sub-headings
\* of the body: k for the k-th folder, k.j for its j-th file.
C3_LockStep ==
    Rendered =>
        /\ TocNumbering = BodyNumbering
        /\ TocNumbering = ExpectedNumbering(code_files_by_folder, 1)

\* a finished report with two folders, one of them with two files
C3_Witness ==
    /\ pc = "done"
    /\ Len(code_files_by_folder) >= 2
    /\ \E k \in 1..Len(code_files_by_folder) : Len(code_files_by_folder[k].files) >= 2
    /\ Len(toc_data) >= 5

\* C4: the count on the title page is the number of files in the report.
C4_TotalFiles ==
    pc = "done" =>
        \E i \in 1..Len(elements) :
            /\ elements[i].type = "Paragraph" /\ elements[i].role = "total"
            /\ elements[i].text
                 = << "Total files: " >> \o Str(Len(Entries(code_files_by_folder)))

\* C9: a file that parses and yields no segment is handed to generate_pdf
\* as a (title, segment list) pair, and the run does not abort on it.
C9_EmptyUnitIsPair ==
    /\ pc \in {"toc", "body", "build", "done", "aborted"} =>
          \A i \in 1..Len(Entries(code_files_by_folder)) :
              ~ParsedButPath(Entries(code_files_by_folder)[i])
    /\ (\A i \in 1..Len(AllowListed) : ~Fails(AllowListed[i])) => pc # "aborted"

(***************************************************************************)
(* Properties of the segment extractor.                                    *)
(***************************************************************************)
\* the unit's own blocks: the Declaration and Implementation/ST elements
\* directly below the root
OwnDeclaration(root)    == First(Children(root, << >>, "Declaration"))
OwnImplementation(root) ==
    First(ChildrenOfAll(root, Children(root, << >>, "Implementation"), "ST"))

\* the segment list in the canonical order
Canonical(root) ==
    Segment(root, OwnDeclaration(root), << "Declaration" >>)
    \o Segment(root, OwnImplementation(root), << "Implementation" >>)
    \o AllMethodSegments(root, Descendants(root, << >>, "Method"))
    \o AllPropertySegments(root, Descendants(root, << >>, "Property"))

\* the element that owns the block at path q: the parent of a Declaration,
\* the grandparent of an ST
OwnerPath(root, q) ==
    IF At(root, q).tag = << "ST" >> THEN SubSeq(q, 1, Len(q) - 2)
    ELSE SubSeq(q, 1, Len(q) - 1)

MemberTags == { << "Method" >>, << "Property" >>, << "Get" >>, << "Set" >> }

\* C2: the returned list is the unit declaration, the unit implementation,
\* the segments of every Method in document order, then those of every
\* Property in document order, a segment being left out exactly when its
\* payload is empty after trimming.
C2_CanonicalOrder ==
    pc = "returned" => Pairs(result.code_segments) = Pairs(Canonical(doc.root))

\* C10: every payload block is in at most one segment, and the segments
\* labelled Declaration and Implementation carry a block of the unit itself,
\* never one owned by a Method, Property, Get or Set.
C10_PayloadOwner ==
    pc = "returned" =>
        LET segs == result.code_segments
        IN  /\ \A i, j \in 1..Len(segs) : segs[i].src = segs[j].src => i = j
            /\ \A i \in 1..Len(segs) :
                  segs[i].label \in { << "Declaration" >>, << "Implementation" >> }
                  => At(doc.root, OwnerPath(doc.root, segs[i].src)).tag \notin MemberTags

(***************************************************************************)
(* Properties of line rendering.                                           *)
(***************************************************************************)
\* the text the keyword loop started from
LoopInput == IF Contains(line, CommentIntro) THEN CommentCodePart(line) ELSE safe_line

Erase(s) == SelectSeq(s, LAMBDA c : c \notin Markers)

\* the blue spans of a highlighted text as intervals <<first, last>> of
\* positions of the text without its markers, one entry per marker pair
RECURSIVE SpanWalk(_, _, _, _)
SpanWalk(h, i, n, stack) ==
    IF i > Len(h) THEN << >>
    ELSE IF h[i] = BlueOpen THEN SpanWalk(h, i + 1, n, << n + 1 >> \o stack)
    ELSE IF h[i] = FontClose /\ stack # << >>
         THEN << << Head(stack), n >> >> \o SpanWalk(h, i + 1, n, Tail(stack))
    ELSE SpanWalk(h, i + 1, n + 1, stack)

Spans(h) == SpanWalk(h, 1, 0, << >>)

SpanCount(sp, a, b) == Cardinality({ j \in 1..Len(sp) : sp[j] = << a, b >> })

OccursAt(s, i, kw) ==
    /\ i + Len(kw) - 1 <= Len(s)
    /\ s[i] = kw[1]
    /\ SubSeq(s, i, i + Len(kw) - 1) = kw

WordBefore(s, i)     == i > 1 /\ IsWord(s[i - 1])
WordAfter(s, i, kw)  == i + Len(kw) <= Len(s) /\ IsWord(s[i + Len(kw)])

RefAssign == << "R","E","F","=" >>

IsParagraph == pc = "rendered" /\ element.type = "Paragraph"

C6_CommentSpan ==
    (IsParagraph /\ Contains(line, CommentIntro)) =>
        LET p    == Find(line, CommentIntro)
            rest == SubSeq(line, p + 2, Len(line))
            tail == << GreenOpen >> \o CommentIntro \o rest \o << FontClose >>
            t    == element.text
            n    == Len(t) - Len(tail)
            head == SubSeq(t, 1, n)
        IN  /\ n >= 0
            /\ SubSeq(t, n + 1, Len(t)) = tail
            /\ head = LStrip(highlighted)
            /\ Erase(head) = LStrip(SubSeq(line, 1, p - 1))
            /\ \A j \in 1..Len(head) : head[j] # GreenOpen
            /\ \A j \in 1..Len(tail) : tail[j] # BlueOpen
            /\ Len(Spans(head)) * 2 = Len(head) - Len(Erase(head))

\* a line with code before the introducer, a second introducer and a
\* keyword in the comment
C6_Witness ==
    /\ IsParagraph
    /\ Contains(line, CommentIntro)
    /\ Spans(highlighted) # << >>
    /\ \E k \in 1..Len(keywords) :
          Contains(CommentPart(line), keywords[k]) /\ keywords[k] # << "T","H","I","S","^" >>

\* C7: the markup of every non-blank line holds the characters & < > of
\* the source only as &amp; &lt; &gt;.
C7_Escaped ==
    IsParagraph =>
        LET t == element.text
        IN  \A j \in 1..Len(t) :
               /\ t[j] \notin {"<", ">"}
               /\ t[j] = "&" =>
                    \/ OccursAt(t, j, << "&","a","m","p",";" >>)
                    \/ OccursAt(t, j, << "&","l","t",";" >>)
                    \/ OccursAt(t, j, << "&","g","t",";" >>)

\* C8: every whole-word occurrence of a listed keyword in the code part (an
\* occurrence with no letter, digit or underscore on either side) is wrapped
\* in exactly one keyword colour marker.
C8_WrappedExactlyOnce ==
    IsParagraph =>
        LET src == LoopInput
            sp  == Spans(highlighted)
        IN  \A k \in 1..Len(keywords) : \A i \in 1..Len(src) :
               ( /\ OccursAt(src, i, keywords[k])
                 /\ ~WordBefore(src, i)
                 /\ ~WordAfter(src, i, keywords[k]) )
               => SpanCount(sp, i, i + Len(keywords[k]) - 1) = 1

=============================================================================
